---- MODULE Spec2Model ----
(***************************************************************************)
(* Crawl-and-extract engine of the hospital price crawler.                 *)
(*                                                                         *)
(*   prog = "pricing"  hospital_crawler.find_procedure_pricing: the direct *)
(*                     pricing-URL probes, the BFS crawl, the relevance    *)
(*                     pass and the PDF-link pass                          *)
(*   prog = "crawl"    hospital_crawler.crawl_hospital_website called on   *)
(*                     its own (as hospital_analysis does)                 *)
(*   prog = "site"     HospitalWebCrawler.crawl_hospital_site              *)
(*   prog = "extract"  the price extraction functions on a page text       *)
(*   prog = "links"    HospitalWebCrawler._extract_and_prioritize_links    *)
(*   prog = "table"    CostExtractor._extract_from_price_lists             *)
(*   prog = "file"     CostInfoParser.parse_cost_file                      *)
(*   prog = "discover" find_hospitals and find_hospitals_in_city           *)
(*   prog = "best"     find_best_price and find_best_procedure_price       *)
(*   prog = "costs"    CostExtractor.extract_costs                         *)
(*   prog = "json"     CostInfoParser._search_json_for_cpt                 *)
(*   prog = "main"     ResultsDatabase as main uses it: load, store, best  *)
(*                                                                         *)
(* A URL is a record [netloc, path]; a href is [netloc, path, nav] with    *)
(* netloc = "" for a relative reference and nav = FALSE for '#',           *)
(* 'javascript:', 'mailto:' and 'tel:' references. A page text is a        *)
(* sequence of tokens.                                                     *)
(***************************************************************************)
EXTENDS Integers, Sequences, FiniteSets, TLC

VARIABLES
    prog,           \* which entry point runs
    pc,             \* position in the running entry point
    max_depth,      \* crawl_hospital_website(max_depth)
    max_pages,      \* crawl_hospital_website(max_pages) / self.max_pages
    queue,          \* deque of [url, depth]        (crawl_hospital_website)
    visited,        \* set of URLs                  (crawl_hospital_website)
    results,        \* list of [url, depth] pages   (crawl_hospital_website)
    page_count,     \* pages recorded               (crawl_hospital_website)
    current,        \* (current_url, depth) of the entry last dequeued
    attempts,       \* GET attempts made for current by the retrying session
    response,       \* status line and headers of the last response for current
    probe_i,        \* index of the next transparency URL to probe
    pdf_i,          \* index of the next page to re-download in the PDF pass
    found,          \* find_procedure_pricing returned a price
    site_queue,     \* deque of URLs                (crawl_hospital_site)
    visited_urls,   \* set of URLs                  (crawl_hospital_site)
    pages_crawled,  \* URLs dequeued                (crawl_hospital_site)
    cost_info,      \* hospital["cost_info"]["status"], "" while crawling
    website,        \* hospital.get("website"), NoUrl when the hospital has none
    discovered,     \* visited URL -> BFS depth and score it was discovered with
    gets,           \* requested URL -> number of GET invocations issued for it
    last_io,        \* last of {"get", "sleep"} performed by the crawl loop, or "none"
    text,           \* page text given to the extraction functions
    url_indicator,  \* a pricing indicator occurs in page['url']
    cpt_code,       \* numeric value of the target code
    price_info,     \* result of _extract_price_from_page, or Unset
    prices,         \* result of find_costs_near_cpt, or Unset
    page_links,     \* <a href> elements given to _extract_and_prioritize_links
    prioritized,    \* list of (url, priority) it returned
    table,          \* <table> given to _extract_from_price_lists
    table_prices,   \* results[cpt_code]['prices'] it leaves
    file,           \* download outcome, file type and payload of a cost file
    file_result,    \* what parse_cost_file returned or raised
    discovery,      \* the discovery function called, its limit and what the
                    \* upstream services answer
    hospitals,      \* the hospital list returned by the discovery
    data,           \* the collected price entries, in iteration order
    best_of,        \* the function that reports the best price
    best_result,    \* what that function returned
    page,           \* the page given to extract_costs: its text and its table
    cost_results,   \* results[cpt_code] of extract_costs
    pending,        \* the prices of the running pass not yet appended
    json_data,      \* the value tree given to _search_json_for_cpt
    json_result,    \* what _search_json_for_cpt returned
    db_file,        \* the entries of the searches persisted in the database file
    search_results  \* the entries of the search main has just run

crawlVars == <<queue, visited, results, page_count, current, attempts, response>>

sessionVars == <<probe_i, pdf_i, found>>

siteVars == <<site_queue, visited_urls, pages_crawled, cost_info, website, discovered>>

extractVars == <<text, url_indicator, cpt_code, price_info, prices>>

linkVars == <<page_links, prioritized>>

\* the variables of the functions that are applied on their own
tableVars == <<table, table_prices>>

fileVars == <<file, file_result>>

discoverVars == <<discovery, hospitals>>

bestVars == <<data, best_of, best_result>>

costsVars == <<page, cost_results, pending>>

\* the variables of the functions added last
jsonVars == <<json_data, json_result>>

dbVars == <<db_file, search_results>>

moreVars == <<costsVars, jsonVars, dbVars>>

fnVars == <<linkVars, tableVars, fileVars, discoverVars, bestVars, moreVars>>

\* the variables of the crawl loops and of the text extraction
engineVars == <<pc, max_depth, max_pages, crawlVars, sessionVars, siteVars,
                extractVars, gets, last_io>>

vars == <<prog, engineVars, fnVars>>

----------------------------------------------------------------------------
(* Bounds of the model *)

MaxDepthBound == 2

MaxPagesBound == 3

MaxLinks == 2

\* largest self.max_pages of crawl_hospital_site
MaxSitePages == 4

----------------------------------------------------------------------------
(* URLs, hrefs and their classification *)

SeedHost == "h"

OtherHost == "x"

transparency_urls ==
    <<"/pricing", "/prices", "/chargemaster", "/charges", "/price-transparency",
      "/standard-charges", "/patient-financial", "/cost-estimator", "/billing">>

Range(s) == {s[i] : i \in 1..Len(s)}

Paths == {"/", "/a", "/f.pdf", "/login"} \cup Range(transparency_urls)

Url(n, p) == [netloc |-> n, path |-> p]

URLs == {Url(n, p) : n \in {SeedHost, OtherHost}, p \in Paths}

Seed == Url(SeedHost, "/")

NoUrl == Url("", "")

Href(n, p, nav) == [netloc |-> n, path |-> p, nav |-> nav]

\* a reference to a PDF with a query string: what follows the netloc is kept
\* in the path field
QueryPdf == "/f.pdf?v=1"

\* the references a page of the site may carry
Hrefs ==
    {Href("", "/a", TRUE), Href("", QueryPdf, TRUE), Href("", "/f.pdf", TRUE),
     Href("", "/login", TRUE), Href(OtherHost, "/a", TRUE), Href("", "/a", FALSE)}

\* urlparse(url).netloc
netloc(url) == url.netloc

\* urljoin(base, href): a relative reference keeps the base's netloc
urljoin(base, href) ==
    IF href.netloc = "" THEN Url(base.netloc, href.path)
    ELSE Url(href.netloc, href.path)

\* the extension the path of a URL ends with, "" if none
PathExt(p) == IF p \in {"/f.pdf", QueryPdf} THEN ".pdf" ELSE ""

\* the extension the whole URL string ends with, "" if none
UrlSuffix(url) == IF url.path = "/f.pdf" THEN ".pdf" ELSE ""

\* the words of the exclusion pattern that occur in a URL
UrlWords(url) == IF url.path = "/login" THEN {"login"} ELSE {}

SkipExtensions ==
    {".pdf", ".jpg", ".jpeg", ".png", ".gif", ".doc", ".docx", ".ppt", ".pptx",
     ".xls", ".xlsx"}

ExclusionWords ==
    {"calendar", "login", "signin", "signup", "contact", "feedback", "search",
     "404", "403", "500"}

\* any(current_url.lower().endswith(ext) for ext in [...])
IsNonHtmlResource(url) == UrlSuffix(url) \in SkipExtensions

MatchesExclusion(url) == UrlWords(url) \cap ExclusionWords # {}

\* sequences of at most n elements of S
SeqsUpTo(S, n) == UNION {[1..k -> S] : k \in 0..n}

----------------------------------------------------------------------------
(* The retrying session of crawl_hospital_website *)

RetryTotal == 3

status_forcelist == {429, 500, 502, 503, 504}

ConnError == -1

\* statuses a server may answer with; ConnError is a timeout or connection error
Statuses == {200, 404, 429, 503, ConnError}

\* one retry too many
ShouldRetryOnceMore(st, made) ==
    /\ st \in status_forcelist \cup {ConnError}
    /\ made - 1 <= RetryTotal

\* Retry.is_retry / Retry.increment: another attempt is made for a listed status
\* (or a connection/read error) while fewer than `total` retries were used;
\* `made` is the number of attempts already made, the answered one included
ShouldRetry(st, made) ==
    /\ st \in status_forcelist \cup {ConnError}
    /\ made - 1 < RetryTotal

\* response.raise_for_status() passes and no exception was raised
StatusOk(st) == st = 200

\* the bodies considered for a response that is an error or is not HTML:
\* empty, or carrying a link
ErrorBodies == {<<>>, <<Href("", "/a", TRUE)>>}

\* no response received yet
NoResponse == [status |-> 0, html |-> FALSE, title |-> "absent"]

\* what is kept of a response once its links were handled
Headers(r) == [status |-> r.status, html |-> r.html, title |-> r.title]

\* the <title> of a body: missing, present without text, present with text
Titles == {"absent", "empty", "text"}

\* a response: its status, whether its Content-Type contains text/html, the
\* <title> of its body and the <a href> elements, in document order, that are
\* left once script, style, meta, noscript, header and footer are removed
CrawlResponses ==
    [status : {200}, html : {TRUE}, title : {"text"},
     links : SeqsUpTo(Hrefs, MaxLinks)]
        \cup [status : {200}, html : {TRUE}, title : Titles, links : {<<>>}]
        \cup [status : {200}, html : {FALSE}, title : {"text"}, links : ErrorBodies]
        \cup [status : Statuses \ {200}, html : {FALSE}, title : {"text"},
              links : ErrorBodies]

\* soup.title.string.strip() raises when the <title> has no text
TitleRaises(r) == r.title = "empty"

\* the title recorded for a page
PageTitle(r) == IF r.title = "absent" THEN "No title" ELSE "Title"

----------------------------------------------------------------------------
(* crawl_hospital_website *)

domain == netloc(Seed)

Entry(url, depth) == [url |-> url, depth |-> depth]

NoEntry == Entry(NoUrl, 0)

\* an element of results
Page(url, title, depth) == [url |-> url, title |-> title, depth |-> depth]

\* the domain test is left out
LinkAcceptedAnyDomain(base, href) == href.nav

\* a href that the link loop passes on to the visited test
LinkAccepted(base, href) ==
    /\ href.nav
    /\ netloc(urljoin(base, href)) = domain

\* DFS order: the entry is put at the front of the queue
EnqueueFront(q, url, depth) == <<Entry(url, depth + 1)>> \o q

\* queue.append((full_url, depth + 1))
Enqueue(q, url, depth) == Append(q, Entry(url, depth + 1))

\* what queue.popleft() leaves in the queue
Popleft(q) == Tail(q)

\* the membership test is dropped: every link counts as new
Revisited(full_url, seen) == TRUE

\* full_url not in visited
Unvisited(full_url, seen) == full_url \notin seen

\* the loop over soup.find_all('a', href=True): the state [queue, visited]
\* after the links of the page at (base, depth) were handled in order
RECURSIVE AddLinks(_, _, _, _)
AddLinks(st, base, depth, links) ==
    IF links = <<>> THEN st
    ELSE LET full == urljoin(base, Head(links))
             nxt == IF LinkAccepted(base, Head(links)) /\ Unvisited(full, st.visited)
                    THEN [queue |-> Enqueue(st.queue, full, depth),
                          visited |-> st.visited \cup {full}]
                    ELSE st
         IN AddLinks(nxt, base, depth, Tail(links))

\* links are looked for on a page at the depth ceiling too
FollowsLinksAtCeiling(depth) == depth <= max_depth

\* links are looked for only on a page above the depth ceiling
FollowsLinks(depth) == depth < max_depth

\* while queue and page_count < max_pages
LoopContinues == queue # <<>> /\ page_count < max_pages

CountGet(url) ==
    IF url \in DOMAIN gets THEN [gets EXCEPT ![url] = @ + 1]
    ELSE gets @@ (url :> 1)

\* queue.popleft(), then the depth test
Dequeue ==
    /\ prog \in {"crawl", "pricing"}
    /\ pc = "loop"
    /\ LoopContinues
    /\ current' = Head(queue)
    /\ queue' = Popleft(queue)
    /\ attempts' = 0
    /\ response' = NoResponse
    /\ pc' = IF Head(queue).depth > max_depth THEN "loop" ELSE "sleep"
    /\ UNCHANGED <<fnVars, prog, max_depth, max_pages, visited, results, page_count,
                   sessionVars, siteVars, extractVars, gets, last_io>>

\* the loop ends: crawl_hospital_website returns results
LoopExit ==
    /\ prog \in {"crawl", "pricing"}
    /\ pc = "loop"
    /\ ~LoopContinues
    /\ pc' = IF prog = "pricing" THEN "relevant" ELSE "done"
    /\ UNCHANGED <<fnVars, prog, max_depth, max_pages, crawlVars, sessionVars, siteVars,
                   extractVars, gets, last_io>>

\* time.sleep(...), then the two skip tests on current_url
Delay ==
    /\ pc = "sleep"
    /\ last_io' = "sleep"
    /\ pc' = IF IsNonHtmlResource(current.url) \/ MatchesExclusion(current.url)
             THEN "loop" ELSE "get"
    /\ UNCHANGED <<fnVars, prog, max_depth, max_pages, crawlVars, sessionVars, siteVars,
                   extractVars, gets>>

\* the page is recorded and its links are queued
RecordPage(r) ==
    \E st \in {IF FollowsLinks(current.depth)
                THEN AddLinks([queue |-> queue, visited |-> visited],
                              current.url, current.depth, r.links)
                ELSE [queue |-> queue, visited |-> visited]} :
       /\ results' = Append(results, Page(current.url, PageTitle(r), current.depth))
       /\ page_count' = page_count + 1
       /\ queue' = st.queue
       /\ visited' = st.visited

\* one attempt of session.get(current_url), and what follows it when it is
\* the last one: raise_for_status, the Content-Type test, the page record
Attempt ==
    /\ pc = "get"
    /\ \E r \in CrawlResponses :
         /\ attempts' = attempts + 1
         /\ response' = Headers(r)
         /\ gets' = IF attempts = 0 THEN CountGet(current.url) ELSE gets
         /\ last_io' = "get"
         /\ IF ShouldRetry(r.status, attempts + 1)
            THEN /\ pc' = "get"
                 /\ UNCHANGED <<queue, visited, results, page_count>>
            ELSE /\ pc' = "loop"
                 /\ IF StatusOk(r.status) /\ r.html /\ ~TitleRaises(r)
                    THEN RecordPage(r)
                    ELSE UNCHANGED <<queue, visited, results, page_count>>
    /\ UNCHANGED <<fnVars, prog, max_depth, max_pages, current, sessionVars, siteVars,
                   extractVars>>

----------------------------------------------------------------------------
(* find_procedure_pricing *)

SessionMaxPages == 30

\* one direct probe: requests.get(urljoin(base_url, path)); the session
\* returns when the probed page yields a price
Probe ==
    /\ pc = "probe"
    /\ gets' = CountGet(Url(netloc(Seed), transparency_urls[probe_i]))
    /\ \E priced \in BOOLEAN :
         IF priced
         THEN /\ found' = TRUE
              /\ pc' = "done"
              /\ UNCHANGED probe_i
         ELSE /\ found' = found
              /\ probe_i' = probe_i + 1
              /\ pc' = IF probe_i = Len(transparency_urls) THEN "loop" ELSE "probe"
    /\ UNCHANGED <<fnVars, prog, max_depth, max_pages, crawlVars, pdf_i, siteVars,
                   extractVars, last_io>>

\* the relevance pass over the crawled pages: a price is returned from one
\* of them, or the PDF pass starts
Relevant ==
    /\ pc = "relevant"
    /\ \E priced \in BOOLEAN :
         /\ priced => results # <<>>
         /\ found' = priced
         /\ pc' = IF priced THEN "done" ELSE "pdf"
    /\ UNCHANGED <<fnVars, prog, max_depth, max_pages, crawlVars, probe_i, pdf_i, siteVars,
                   extractVars, gets, last_io>>

\* _find_pdf_pricing_resources: each crawled page is downloaded again
PdfPass ==
    /\ pc = "pdf"
    /\ IF pdf_i <= Len(results)
       THEN /\ gets' = CountGet(results[pdf_i].url)
            /\ pdf_i' = pdf_i + 1
            /\ pc' = "pdf"
       ELSE /\ pc' = "done"
            /\ UNCHANGED <<gets, pdf_i>>
    /\ UNCHANGED <<fnVars, prog, max_depth, max_pages, crawlVars, probe_i, found, siteVars,
                   extractVars, last_io>>

----------------------------------------------------------------------------
(* HospitalWebCrawler: link prioritisation and crawl_hospital_site *)

cost_keywords ==
    {"price", "cost", "charge", "billing", "financial", "payment", "insurance",
     "transparency", "estimat", "fee", "patient", "surgery", "procedure", "cpt",
     "service", "cash", "pricing"}

MediaExtensions == {".jpg", ".png", ".gif", ".pdf", ".mp3", ".mp4"}

MachineExtensions == {".csv", ".xlsx", ".json", ".xml"}

AnchorTexts == {"about us", "price list"}

\* the words of a vocabulary that occur in an anchor text / in a URL path
TextWords(t) == IF t = "price list" THEN {"price"} ELSE {}

PathWords(p) ==
    IF p = "/pricing" THEN {"pricing"}
    ELSE IF p = "/billing" THEN {"billing"}
    ELSE {}

\* an <a href> element: the reference and its anchor text
Link(h, t) == [href |-> h, text |-> t]

SiteLinks ==
    {Link(Href("", "/a", TRUE), "about us"), Link(Href("", "/a", TRUE), "price list"),
     Link(Href("", "/pricing", TRUE), "price list"),
     Link(Href("", "/f.pdf", TRUE), "price list"),
     Link(Href("", "/login", TRUE), "about us"),
     Link(Href("", "/billing", TRUE), "about us"),
     Link(Href(OtherHost, "/a", TRUE), "price list"),
     Link(Href("", "/a", FALSE), "about us")}

\* the links on the pages that crawl_hospital_site fetches
SitePageLinks ==
    {Link(Href("", "/a", TRUE), "about us"),
     Link(Href("", "/pricing", TRUE), "price list"),
     Link(Href("", "/login", TRUE), "about us"),
     Link(Href("", "/billing", TRUE), "about us"),
     Link(Href(OtherHost, "/a", TRUE), "price list")}

SiteErrorBodies == {<<>>, <<Link(Href("", "/a", TRUE), "price list")>>}

\* the priority score of a link that passed the filter
Priority(link) ==
    LET kwText == TextWords(link.text) \cap cost_keywords
        kwPath == PathWords(link.href.path) \cap cost_keywords
    IN 10 * Cardinality(kwText) + 5 * Cardinality(kwPath)
       + (IF PathExt(link.href.path) = ".pdf" /\ kwText # {} THEN 15 ELSE 0)
       + (IF PathExt(link.href.path) \in MachineExtensions /\ kwText # {}
          THEN 20 ELSE 0)

\* the filter of _extract_and_prioritize_links
LinkKept(base, link) ==
    /\ link.href.nav
    /\ netloc(urljoin(base, link.href)) = netloc(Seed)
    /\ PathExt(link.href.path) \notin MediaExtensions

\* insertion that keeps the order of equal scores: sorted(..., reverse=True)
RECURSIVE InsertByPriority(_, _)
InsertByPriority(sorted, e) ==
    IF sorted = <<>> THEN <<e>>
    ELSE IF Head(sorted).priority >= e.priority
         THEN <<Head(sorted)>> \o InsertByPriority(Tail(sorted), e)
         ELSE <<e>> \o sorted

RECURSIVE SortByPriority(_)
SortByPriority(s) ==
    IF s = <<>> THEN <<>>
    ELSE InsertByPriority(SortByPriority(SubSeq(s, 1, Len(s) - 1)), s[Len(s)])

\* _extract_and_prioritize_links: [url, priority] of the kept links, best first
ExtractAndPrioritizeLinks(base, links) ==
    LET kept == SelectSeq(links, LAMBDA l : LinkKept(base, l))
        scored == [i \in 1..Len(kept) |->
                     [url |-> urljoin(base, kept[i].href),
                      priority |-> Priority(kept[i])]]
    IN SortByPriority(scored)

\* the loop that adds the unvisited links to the queue
RECURSIVE SiteAddLinks(_, _)
SiteAddLinks(st, links) ==
    IF links = <<>> THEN st
    ELSE LET u == Head(links).url
             nxt == IF Unvisited(u, st.visited) /\ netloc(u) = netloc(Seed)
                    THEN [queue |-> Append(st.queue, u),
                          visited |-> st.visited \cup {u}]
                    ELSE st
         IN SiteAddLinks(nxt, Tail(links))

\* the score of the first entry for url in the prioritised links
FirstScore(links, url) ==
    links[CHOOSE i \in 1..Len(links) :
            /\ links[i].url = url
            /\ \A j \in 1..(i - 1) : links[j].url # url].priority

\* depth and score of the URLs the page at depth d added to the visited set
Discover(old, d, links, now_visited) ==
    [u \in now_visited |->
        IF u \in DOMAIN old THEN old[u]
        ELSE [depth |-> d + 1, priority |-> FirstScore(links, u)]]

\* what _find_cost_info returns for a body: None, a price of a table row or
\* of a text element (status "found"), or the first link to a .csv, .xlsx,
\* .json or .xml file whose text names prices
CostOutcomes == {"none", "found", "potential_file_found"}

\* a response: cost is what _find_cost_info returns for its body
SiteResponses ==
    [status : {200}, html : {TRUE}, title : {"text"}, cost : {"none"},
     links : SeqsUpTo(SitePageLinks, MaxLinks)]
        \cup [status : {200}, html : BOOLEAN, title : {"text"}, cost : CostOutcomes,
              links : SiteErrorBodies]
        \cup [status : Statuses \ {200}, html : {FALSE}, title : {"text"},
              cost : CostOutcomes, links : SiteErrorBodies]

\* the body of the response is parsed and processed
SiteProcesses(r) == r.status = 200

\* the page budget is not tested
SiteLoopContinuesNoBudget == site_queue # <<>>

\* while queue and pages_crawled < self.max_pages
SiteLoopContinues == site_queue # <<>> /\ pages_crawled < max_pages

NotFoundStatus == "Cost information not found"

\* hospital.get("website") is empty
SiteNoWebsite ==
    /\ pc = "site_start"
    /\ website = NoUrl
    /\ cost_info' = "No website available"
    /\ pc' = "done"
    /\ UNCHANGED <<fnVars, prog, max_depth, max_pages, crawlVars, sessionVars, site_queue,
                   visited_urls, pages_crawled, website, discovered, extractVars,
                   gets, last_io>>

\* the queue and the visited set are set up from the website
SiteStart ==
    /\ pc = "site_start"
    /\ website # NoUrl
    /\ site_queue' = <<website>>
    /\ visited_urls' = {website}
    /\ pages_crawled' = 0
    /\ discovered' = [u \in {website} |-> [depth |-> 0, priority |-> 0]]
    /\ pc' = "site_loop"
    /\ UNCHANGED <<fnVars, prog, max_depth, max_pages, crawlVars, sessionVars, cost_info,
                   website, extractVars, gets, last_io>>

\* the count is left as it is
CountKept(n) == n

\* pages_crawled += 1, right after the popleft
CountDequeued(n) == n + 1

\* one iteration of the loop of crawl_hospital_site
SiteStep ==
    /\ pc = "site_loop"
    /\ SiteLoopContinues
    /\ current' = Entry(Head(site_queue), 0)
    /\ pages_crawled' = CountDequeued(pages_crawled)
    /\ gets' = CountGet(Head(site_queue))
    /\ attempts' = 1
    /\ \E r \in SiteResponses :
         /\ response' = Headers(r)
         /\ IF ~SiteProcesses(r)
            THEN /\ site_queue' = Popleft(site_queue)
                 /\ last_io' = "get"
                 /\ pc' = "site_loop"
                 /\ UNCHANGED <<visited_urls, cost_info, discovered>>
            ELSE IF r.cost # "none"
            THEN /\ cost_info' = r.cost
                 /\ site_queue' = Popleft(site_queue)
                 /\ last_io' = "get"
                 /\ pc' = "done"
                 /\ UNCHANGED <<visited_urls, discovered>>
            ELSE \E links \in {ExtractAndPrioritizeLinks(Head(site_queue), r.links)} :
                 \E st \in {SiteAddLinks([queue |-> Popleft(site_queue),
                                          visited |-> visited_urls], links)} :
                    /\ site_queue' = st.queue
                    /\ visited_urls' = st.visited
                    /\ discovered' = Discover(discovered,
                                              discovered[Head(site_queue)].depth,
                                              links, st.visited)
                    /\ last_io' = "sleep"
                    /\ pc' = "site_loop"
                    /\ UNCHANGED cost_info
    /\ UNCHANGED <<fnVars, prog, max_depth, max_pages, queue, visited, results, page_count,
                   sessionVars, website, extractVars>>

\* the loop ends without a price
SiteExit ==
    /\ pc = "site_loop"
    /\ ~SiteLoopContinues
    /\ cost_info' = NotFoundStatus
    /\ pc' = "done"
    /\ UNCHANGED <<fnVars, prog, max_depth, max_pages, crawlVars, sessionVars, site_queue,
                   visited_urls, pages_crawled, website, discovered, extractVars,
                   gets, last_io>>

----------------------------------------------------------------------------
(* Page text and the price extraction functions *)

MaxTextLen == 4

\* largest number of data rows of a table
MaxRows == 2

\* window radius in tokens: 500 characters in _extract_price_from_page,
\* 300 characters in find_costs_near_cpt
PageWindow == 2

CptWindow == 1

MinPrice == 10

MaxPrice == 50000

\* a token: the target code, a price term, an amount (with or without a
\* leading '$'), or any other word
Tok(k, v, d, t) == [k |-> k, v |-> v, d |-> d, t |-> t]

CodeTok == Tok("code", 0, FALSE, "")

WordTok == Tok("word", 0, FALSE, "")

TermTok(t) == Tok("term", 0, FALSE, t)

NumTok(v, d) == Tok("num", v, d, "")

\* amounts below and inside the sanity bound (the digits of code 99213 are
\* a number above it)
Amounts == {5, 125, 300}

\* the amounts that also occur written without a leading '$'
PlainAmounts == {125}

\* target codes: one above the sanity bound, one inside it
CptCodes == {99213, 27447}

Tokens ==
    {CodeTok, WordTok, TermTok("cost")}
        \cup {NumTok(v, TRUE) : v \in Amounts}
        \cup {NumTok(v, FALSE) : v \in PlainAmounts}

Texts == SeqsUpTo(Tokens, MaxTextLen)

\* a run of digits: an amount or the digits of the code
IsNumeric(tok) == tok.k \in {"num", "code"}

\* float(price_str) of a numeric token
NumVal(tok, code) == IF tok.k = "code" THEN code ELSE tok.v

\* the whole text is searched, whatever the radius
WholeText(txt, i, r) == txt

\* text[max(0, i - r) : min(len(text), i + r)] around the occurrence at i
Window(txt, i, r) ==
    SubSeq(txt, IF i - r < 1 THEN 1 ELSE i - r,
                IF i + r > Len(txt) THEN Len(txt) ELSE i + r)

\* the positions of the occurrences of the code, in text order
CodePositions(txt) ==
    SelectSeq([i \in 1..Len(txt) |-> i], LAMBDA i : txt[i].k = "code")

\* the patterns of _extract_price_from_page, in list order: the basic
\* amount pattern, then one pattern per price term
PagePatterns == <<"", "cost", "price", "charge", "fee", "rate">>

\* re.findall(pattern, window): the amounts matched, in text order
PageMatches(pattern, w, code) ==
    LET hit(j) == /\ IsNumeric(w[j])
                  /\ pattern # "" =>
                        /\ j > 1
                        /\ w[j - 1].k = "term"
                        /\ w[j - 1].t = pattern
        idx == SelectSeq([j \in 1..Len(w) |-> j], hit)
    IN [n \in 1..Len(idx) |-> NumVal(w[idx[n]], code)]

\* the filter on unreasonable prices
InPriceBound(price) == MinPrice <= price /\ price <= MaxPrice

\* the lowest of the valid prices, whatever their number
ChosenLowest(valid) == SortSeq(valid, LAMBDA a, b : a < b)[1]

\* the price chosen among the sorted valid prices of one pattern
ChosenPrice(valid) ==
    LET sorted == SortSeq(valid, LAMBDA a, b : a < b)
    IN IF Len(sorted) > 2 THEN sorted[(Len(sorted) \div 2) + 1] ELSE sorted[1]

NotFound == [found |-> FALSE, price |-> 0]

\* the loop over the patterns for one window, from pattern p on
RECURSIVE WindowPrice(_, _, _)
WindowPrice(w, code, p) ==
    IF p > Len(PagePatterns) THEN NotFound
    ELSE LET valid == SelectSeq(PageMatches(PagePatterns[p], w, code), InPriceBound)
         IN IF valid # <<>> THEN [found |-> TRUE, price |-> ChosenPrice(valid)]
            ELSE WindowPrice(w, code, p + 1)

\* the loop over the windows, from occurrence n on
RECURSIVE WindowsPrice(_, _, _)
WindowsPrice(txt, code, n) ==
    IF n > Len(CodePositions(txt)) THEN NotFound
    ELSE LET r == WindowPrice(Window(txt, CodePositions(txt)[n], PageWindow), code, 1)
         IN IF r.found THEN r ELSE WindowsPrice(txt, code, n + 1)

\* is_pricing_page: a pricing indicator occurs in the text or in the URL
IsPricingPage(txt, in_url) == in_url \/ \E i \in 1..Len(txt) : txt[i].k = "term"

\* _extract_price_from_page(page, cpt_code)
ExtractPriceFromPage(txt, in_url, code) ==
    IF ~IsPricingPage(txt, in_url) THEN NotFound ELSE WindowsPrice(txt, code, 1)

\* the patterns of CostExtractor, in list order: '$' amount, then one
\* pattern per price term followed by a '$' amount
price_patterns == <<"", "cost", "price", "charge", "fee">>

\* re.finditer(pattern, window): the '$' amounts matched, in text order
CptMatches(pattern, w) ==
    LET hit(j) == /\ w[j].k = "num"
                  /\ w[j].d
                  /\ pattern # "" =>
                        /\ j > 1
                        /\ w[j - 1].k = "term"
                        /\ w[j - 1].t = pattern
        idx == SelectSeq([j \in 1..Len(w) |-> j], hit)
    IN [n \in 1..Len(idx) |-> w[idx[n]].v]

\* the prices appended for one window: every match of every pattern
RECURSIVE WindowCosts(_, _)
WindowCosts(w, p) ==
    IF p > Len(price_patterns) THEN <<>>
    ELSE CptMatches(price_patterns[p], w) \o WindowCosts(w, p + 1)

\* CostExtractor.find_costs_near_cpt(text, cpt_code, url)
RECURSIVE CostsFrom(_, _)
CostsFrom(txt, n) ==
    IF n > Len(CodePositions(txt)) THEN <<>>
    ELSE WindowCosts(Window(txt, CodePositions(txt)[n], CptWindow), 1)
            \o CostsFrom(txt, n + 1)

FindCostsNearCpt(txt) == CostsFrom(txt, 1)

Unset == [found |-> FALSE, price |-> -1]

UnsetPrices == <<-1>>

\* _extract_price_from_page is applied to the page text
ExtractPrice ==
    /\ prog = "extract"
    /\ price_info = Unset
    /\ price_info' = ExtractPriceFromPage(text, url_indicator, cpt_code)
    /\ UNCHANGED <<fnVars, prog, pc, max_depth, max_pages, crawlVars, sessionVars, siteVars,
                   text, url_indicator, cpt_code, prices, gets, last_io>>

\* find_costs_near_cpt is applied to the page text
FindCosts ==
    /\ prog = "extract"
    /\ prices = UnsetPrices
    /\ prices' = FindCostsNearCpt(text)
    /\ UNCHANGED <<fnVars, prog, pc, max_depth, max_pages, crawlVars, sessionVars, siteVars,
                   text, url_indicator, cpt_code, price_info, gets, last_io>>

----------------------------------------------------------------------------
(* Functions applied on their own: prog names the function, pc is "call"  *)
(* before it was applied and "done" after.                                 *)

\* _extract_and_prioritize_links(soup, base_url, base_domain, cpt_code) on a
\* page of the hospital's site
Prioritize ==
    /\ prog = "links"
    /\ pc = "call"
    /\ pc' = "done"
    /\ prioritized' = ExtractAndPrioritizeLinks(Seed, page_links)
    /\ UNCHANGED <<prog, max_depth, max_pages, crawlVars, sessionVars, siteVars,
                   extractVars, gets, last_io, page_links, tableVars, fileVars,
                   discoverVars, bestVars, moreVars>>

\* the texts of the <th> cells of the tables considered
TableHeaders ==
    {<<>>, <<"procedure price">>, <<"description", "price">>,
     <<"cpt code", "price">>, <<"price", "cpt code">>,
     <<"cpt code", "description", "price">>}

\* the terms of the two vocabularies that occur in a header text
HeaderWords(h) ==
    CASE h = "cpt code" -> {"cpt", "code"}
      [] h = "price" -> {"price"}
      [] h = "procedure price" -> {"procedure", "price"}
      [] OTHER -> {}

CodeHeaderTerms == {"cpt", "code", "procedure"}

PriceHeaderTerms == {"price", "cost", "fee", "charge", "$"}

\* a data cell: the target code, a '$' amount, or text without digits
CodeCell == [k |-> "code", v |-> 0]

NumCell(v) == [k |-> "num", v |-> v]

TextCell == [k |-> "text", v |-> 0]

Cells == {CodeCell, NumCell(125), TextCell}

\* the data rows under a header of n cells: complete, or one cell short
RowsOf(n) ==
    UNION {[1..m -> Cells] : m \in {k \in {n - 1, n} : k >= 0}}

Tables ==
    UNION {[headers : {h}, rows : SeqsUpTo(RowsOf(Len(h)), MaxRows)] :
             h \in TableHeaders}

\* the index that the loop over headers_text leaves: the last header with a
\* term of the vocabulary, 0 for None
ColumnOf(headers, terms) ==
    LET hits == {i \in 1..Len(headers) : HeaderWords(headers[i]) \cap terms # {}}
    IN IF hits = {} THEN 0 ELSE CHOOSE i \in hits : \A j \in hits : j <= i

\* cpt_code in cpt_cell
HasCode(cell) == cell.k = "code"

\* re.search(r'\$?\s*([\d,]+\.?\d*)', price_cell) finds a number
HasNumber(cell) == cell.k \in {"num", "code"}

\* float(price_match.group(1).replace(',', ''))
CellNumber(cell, code) == IF cell.k = "code" THEN code ELSE cell.v

\* the first cell of the row that holds a number, whatever the column
FirstNumberCell(row, col) ==
    IF \E i \in 1..Len(row) : HasNumber(row[i])
    THEN row[CHOOSE i \in 1..Len(row) :
                /\ HasNumber(row[i])
                /\ \A j \in 1..(i - 1) : ~HasNumber(row[j])]
    ELSE TextCell

\* cells[price_col]
PriceCell(row, col) == row[col]

\* the loop over rows[1:]: the prices appended for the target code
RECURSIVE RowPrices(_, _, _, _)
RowPrices(rows, cpt_col, price_col, code) ==
    IF rows = <<>> THEN <<>>
    ELSE LET row == Head(rows)
             long == Len(row) >= cpt_col /\ Len(row) >= price_col
             here == IF /\ long
                        /\ HasCode(row[cpt_col])
                        /\ HasNumber(PriceCell(row, price_col))
                     THEN <<CellNumber(PriceCell(row, price_col), code)>>
                     ELSE <<>>
         IN here \o RowPrices(Tail(rows), cpt_col, price_col, code)

\* CostExtractor._extract_from_price_lists on one table, results empty
ExtractFromPriceLists(t, code) ==
    LET cpt_col == ColumnOf(t.headers, CodeHeaderTerms)
        price_col == ColumnOf(t.headers, PriceHeaderTerms)
    IN IF cpt_col # 0 /\ price_col # 0
       THEN RowPrices(t.rows, cpt_col, price_col, code)
       ELSE <<>>

ExtractTable ==
    /\ prog = "table"
    /\ pc = "call"
    /\ pc' = "done"
    /\ table_prices' = ExtractFromPriceLists(table, cpt_code)
    /\ UNCHANGED <<prog, max_depth, max_pages, crawlVars, sessionVars, siteVars,
                   extractVars, gets, last_io, linkVars, table, fileVars,
                   discoverVars, bestVars, moreVars>>

----------------------------------------------------------------------------
(* CostInfoParser: parse_cost_file and the parsers of the file types *)

\* the column names of the CSV files considered
CsvHeaders ==
    {<<"code", "fee">>, <<"code", "name">>, <<"code", "fee", "charge">>}

CsvPriceTerms == {"price", "cost", "charge", "fee", "amount"}

\* the terms of the price vocabulary that occur in a column name
CsvHeaderWords(h) == IF h \in {"fee", "charge"} THEN {h} ELSE {}

\* a CSV cell: a value that contains the target code, an amount, other
\* text, or an empty cell (NaN in the frame)
CsvCode == [k |-> "code", v |-> 0]

CsvAmount(v) == [k |-> "num", v |-> v]

CsvText == [k |-> "text", v |-> 0]

CsvNaN == [k |-> "nan", v |-> 0]

\* the cells considered for a column, by its name
ColumnCells(h) ==
    CASE h = "fee" -> {CsvAmount(125), CsvAmount(0), CsvNaN}
      [] h = "charge" -> {CsvAmount(300), CsvNaN}
      [] h = "code" -> {CsvCode, CsvText}
      [] OTHER -> {CsvCode, CsvText, CsvNaN}

CsvCells == UNION {ColumnCells(h) : h \in {"code", "fee", "charge", "name"}}

CsvRows(headers) ==
    {row \in [1..Len(headers) -> CsvCells] :
        \A i \in 1..Len(headers) : row[i] \in ColumnCells(headers[i])}

\* a CSV payload. reader tells what pd.read_csv(..., error_bad_lines=False)
\* does with it: "frame" it returns a frame; "raises" it raises for every
\* encoding (so does every call under pandas 2, which has no such keyword)
\* and the csv module reads the lines; "unreadable" the csv module raises
\* too. dollar tells whether the amounts are written with a '$'.
CsvPayloads ==
    UNION {[kind : {"csv"}, reader : {"frame", "raises"}, dollar : BOOLEAN,
            headers : {h}, rows : SeqsUpTo(CsvRows(h), MaxRows)] : h \in CsvHeaders}
      \cup [kind : {"csv"}, reader : {"unreadable"}, dollar : {FALSE},
            headers : {<<>>}, rows : {<<>>}]

\* a payload of another type: its parser raises, finds no price for the
\* code, or finds one
OtherPayloads ==
    [kind : {"other"}, outcome : {"raises", "none", "found"}]

FileTypes == {"csv", "xlsx", "json", "xml", "pdf"}

\* the outcome of requests.get: a status, or an exception
Downloads == {200, 404, ConnError}

Files ==
    [download : Downloads, file_type : {"csv"}, payload : CsvPayloads]
      \cup [download : Downloads, file_type : FileTypes \ {"csv"},
            payload : OtherPayloads]

NoFile ==
    [download |-> 0, file_type |-> "", payload |-> [kind |-> "other", outcome |-> "none"]]

\* results of a parser: None, a price, or an exception on its way out
None == [status |-> "none", cost |-> 0, type |-> ""]

FoundCost(cost, type) == [status |-> "found", cost |-> cost, type |-> type]

Raised == [status |-> "raised", cost |-> 0, type |-> ""]

\* the least element of a set of indexes, 0 when it is empty
FirstIndex(S) == IF S = {} THEN 0 ELSE CHOOSE i \in S : \A j \in S : i <= j

\* cpt_code in row_text, and the first '$' amount of the row text
RowHasCode(row) == \E i \in 1..Len(row) : row[i].k = "code"

RowDollarCells(c, row) == {i \in 1..Len(row) : c.dollar /\ row[i].k = "num"}

\* the scan of the rows with the '$' pattern, as type
RowSearch(c, type) ==
    LET hit == FirstIndex({n \in 1..Len(c.rows) :
                    RowHasCode(c.rows[n]) /\ RowDollarCells(c, c.rows[n]) # {}})
    IN IF hit = 0 THEN None
       ELSE FoundCost(c.rows[hit][FirstIndex(RowDollarCells(c, c.rows[hit]))].v, type)

\* the columns whose name holds a term of the price vocabulary
PriceCols(c) ==
    {i \in 1..Len(c.headers) : CsvHeaderWords(c.headers[i]) \cap CsvPriceTerms # {}}

\* matching_rows.iloc[0] for a column: the first row with the code in it
FirstMatchingRow(c, col) ==
    FirstIndex({n \in 1..Len(c.rows) : c.rows[n][col].k = "code"})

\* if price and not pd.isna(price)
Usable(cell) == cell.k # "nan" /\ ~(cell.k = "num" /\ cell.v = 0)

\* the price columns with a usable value in the first matching row of col
UsableCols(c, col) ==
    {p \in PriceCols(c) : Usable(c.rows[FirstMatchingRow(c, col)][p])}

\* the frame read by pandas: the loop over the columns that contain the
\* code, then the scan of all rows
ParseFrame(c) ==
    LET col == FirstIndex({i \in 1..Len(c.headers) :
                    /\ FirstMatchingRow(c, i) # 0
                    /\ UsableCols(c, i) # {}})
    IN IF col # 0
       THEN FoundCost(c.rows[FirstMatchingRow(c, col)][FirstIndex(UsableCols(c, col))].v,
                      "csv")
       ELSE RowSearch(c, "csv_row_search")

\* the exception passes to the caller
Unhandled(result) == result

\* except Exception: return None
Handled(result) == IF result.status = "raised" THEN None ELSE result

\* CostInfoParser._parse_csv(content, cpt_code)
ParseCsv(c) ==
    Handled(CASE c.reader = "frame" -> ParseFrame(c)
              [] c.reader = "raises" -> RowSearch(c, "csv_manual")
              [] OTHER -> Raised)

\* _parse_excel, _parse_json, _parse_xml
ParseOther(file_type, payload) ==
    Handled(CASE payload.outcome = "raises" -> Raised
              [] payload.outcome = "none" -> None
              [] OTHER -> FoundCost(0, IF file_type = "xlsx" THEN "excel" ELSE file_type))

\* CostInfoParser.parse_cost_file(file_url, file_type, cpt_code)
ParseCostFile(f) ==
    Handled(IF f.download = ConnError THEN Raised
            ELSE IF f.download # 200 THEN None
            ELSE IF f.file_type = "csv" THEN ParseCsv(f.payload)
            ELSE IF f.file_type \in {"xlsx", "json", "xml"}
                 THEN ParseOther(f.file_type, f.payload)
            ELSE None)

ParseFile ==
    /\ prog = "file"
    /\ pc = "call"
    /\ pc' = "done"
    /\ file_result' = ParseCostFile(file)
    /\ UNCHANGED <<prog, max_depth, max_pages, crawlVars, sessionVars, siteVars,
                   extractVars, gets, last_io, linkVars, tableVars, file,
                   discoverVars, bestVars, moreVars>>

----------------------------------------------------------------------------
(* Hospital discovery: hospital_crawler.find_hospitals and                 *)
(* utils.hospital_finder.HospitalFinder.find_hospitals_in_city             *)

\* largest number of hospitals in an answer of the upstream search
MaxHits == 2

\* largest limit passed to a discovery function
MaxLimit == 2

Min(a, b) == IF a < b THEN a ELSE b

\* s[:n]
Take(s, n) == SubSeq(s, 1, Min(n, Len(s)))

Hospital(kind, idx, name) == [kind |-> kind, idx |-> idx, name |-> name]

\* what an upstream request does: it answers 200 with a usable body, 200
\* with no result (geocoding only), another status, or it raises
Upstream == {"ok", "status", "raises"}

Discoveries ==
    [finder : {"find_hospitals"}, limit : 0..MaxLimit,
     geocode : Upstream \cup {"empty"}, search : Upstream, hits : 0..MaxHits]
      \cup [finder : {"find_hospitals_in_city"}, limit : 0..MaxLimit,
            geocode : {"unused"}, search : Upstream, hits : 0..MaxHits]

NoDiscovery ==
    [finder |-> "", limit |-> 0, geocode |-> "unused", search |-> "ok", hits |-> 0]

\* _get_city_coordinates returned coordinates: raise_for_status and the
\* except clause turn every failure into None
HasCoordinates(d) == d.geocode = "ok"

\* _find_nearby_hospitals(lat, lng, limit)
FindNearbyHospitals(d) ==
    IF d.search = "ok"
    THEN Take([i \in 1..d.hits |-> Hospital("node", i, "")], d.limit)
    ELSE <<>>

\* find_hospitals(city, state, limit)
FindHospitals(d) ==
    IF ~HasCoordinates(d) THEN <<>> ELSE FindNearbyHospitals(d)

\* HospitalFinder._search_hospitals(location, limit): the loop stops after
\* the append that makes the list as long as the limit
SearchHospitals(d) ==
    IF d.search = "ok" /\ d.hits > 0
    THEN Take([i \in 1..d.hits |-> Hospital("hosp", i, "")],
              IF d.limit < 1 THEN 1 ELSE d.limit)
    ELSE <<>>

major_hospitals == {"Mayo Clinic", "Cleveland Clinic", "Johns Hopkins Hospital"}

\* random.sample(major_hospitals, min(limit, len(major_hospitals)))
Samples(limit) ==
    {smp \in [1..Min(limit, Cardinality(major_hospitals)) -> major_hospitals] :
        \A i, j \in DOMAIN smp : smp[i] = smp[j] => i = j}

\* HospitalFinder._add_major_hospitals, for the sample drawn
AddMajorHospitals(smp) == [i \in DOMAIN smp |-> Hospital("major", i, smp[i])]

pricing_sites ==
    <<"Healthcare Bluebook", "Fair Health Consumer",
      "Medicare.gov Hospital Compare", "GoodRx">>

\* HospitalFinder._add_pricing_sites(hospitals, location)
AddPricingSites(hosps) ==
    hosps \o [i \in DOMAIN pricing_sites |-> Hospital("pricing", i, pricing_sites[i])]

\* the number of major hospitals find_hospitals_in_city asks for
MajorsWanted(d) ==
    IF Len(SearchHospitals(d)) < d.limit THEN d.limit - Len(SearchHospitals(d)) ELSE 0

\* HospitalFinder.find_hospitals_in_city(city, state, limit)
FindHospitalsInCity(d, smp) ==
    Take(AddPricingSites(SearchHospitals(d) \o AddMajorHospitals(smp)), d.limit)

RunDiscovery ==
    /\ prog = "discover"
    /\ pc = "call"
    /\ pc' = "done"
    /\ \/ /\ discovery.finder = "find_hospitals"
          /\ hospitals' = FindHospitals(discovery)
       \/ /\ discovery.finder = "find_hospitals_in_city"
          /\ \E smp \in Samples(MajorsWanted(discovery)) :
                hospitals' = FindHospitalsInCity(discovery, smp)
    /\ UNCHANGED <<prog, max_depth, max_pages, crawlVars, sessionVars, siteVars,
                   extractVars, gets, last_io, linkVars, tableVars, fileVars,
                   discovery, bestVars, moreVars>>

----------------------------------------------------------------------------
(* The best price: ResultsDatabase.find_best_price and the end of          *)
(* hospital_finder.find_best_procedure_price                               *)

\* largest number of collected entries
MaxEntries == 3

BestUrls == {"https://h1/pricing", "https://h2/pricing"}

BestAmounts == {125, 300}

\* an entry of the results: the prices collected at a URL for the code
\* (coded), or an entry without the code. For find_best_procedure_price an
\* entry is a hospital with its one price (found) or without.
Entries(fn) ==
    [url : BestUrls, coded : {TRUE},
     prices : IF fn = "find_best_price" THEN SUBSET BestAmounts \ {{}}
              ELSE {{a} : a \in BestAmounts}]
      \cup [url : BestUrls, coded : {FALSE}, prices : {{}}]

NoBest == [status |-> "none", price |-> 0, url |-> ""]

Best(price, url) == [status |-> "found", price |-> price, url |-> url]

\* min(prices)
MinOf(S) == CHOOSE a \in S : \A b \in S : a <= b

\* the comparison with a later entry wins a tie
NotWorse(price, best) == best.status = "none" \/ price <= best.price

\* if price < best_price, with best_price = float('inf') at first
Better(price, best) == best.status = "none" \/ price < best.price

RECURSIVE BestFrom(_, _, _)
\* the loop of find_best_price from entry i on
BestFrom(entries, i, best) ==
    IF i > Len(entries) THEN best
    ELSE BestFrom(entries, i + 1,
                  IF entries[i].coded /\ Better(MinOf(entries[i].prices), best)
                  THEN Best(MinOf(entries[i].prices), entries[i].url)
                  ELSE best)

\* ResultsDatabase.find_best_price(cpt_code)
FindBestPrice(entries) == BestFrom(entries, 1, NoBest)

\* all_prices of find_best_procedure_price: the hospitals with a price
AllPrices(entries) == SelectSeq(entries, LAMBDA e : e.coded)

\* min(all_prices, key=lambda x: x["price"]): the first of the least
FindBestProcedurePrice(entries) ==
    LET all_prices == AllPrices(entries)
        price(i) == MinOf(all_prices[i].prices)
    IN IF all_prices = <<>> THEN NoBest
       ELSE LET i == CHOOSE i \in DOMAIN all_prices :
                        \A j \in DOMAIN all_prices :
                            price(i) < price(j) \/ (price(i) = price(j) /\ i <= j)
            IN Best(price(i), all_prices[i].url)

ReportBest ==
    /\ prog = "best"
    /\ pc = "call"
    /\ pc' = "done"
    /\ best_result' = IF best_of = "find_best_price" THEN FindBestPrice(data)
                      ELSE FindBestProcedurePrice(data)
    /\ UNCHANGED <<prog, max_depth, max_pages, crawlVars, sessionVars, siteVars,
                   extractVars, gets, last_io, linkVars, tableVars, fileVars,
                   discoverVars, data, best_of, moreVars>>

----------------------------------------------------------------------------
(* ResultsDatabase as main uses it: the file is loaded, the results of the *)
(* search are stored and saved, the best price is reported. The searches  *)
(* of self.data are kept flattened, in the order find_best_price iterates *)
(* over them.                                                              *)

\* largest number of entries of the file and of a search
MaxStored == 1

\* self.data = self._load_db() in ResultsDatabase.__init__
LoadDb ==
    /\ prog = "main"
    /\ pc = "load"
    /\ data' = db_file
    /\ pc' = "store"
    /\ UNCHANGED <<prog, max_depth, max_pages, crawlVars, sessionVars, siteVars,
                   extractVars, gets, last_io, linkVars, tableVars, fileVars,
                   discoverVars, best_of, best_result, moreVars>>

\* self.data[search_id] = {..., 'results': results}: the new search comes
\* last in the iteration order of the dictionary
StoredUnder(entries, search) == entries \o search

\* db.store_results(results, location, cpt_codes), save_db included
StoreResults ==
    /\ prog = "main"
    /\ pc = "store"
    /\ data' = StoredUnder(data, search_results)
    /\ db_file' = data'
    /\ pc' = "report"
    /\ UNCHANGED <<prog, max_depth, max_pages, crawlVars, sessionVars, siteVars,
                   extractVars, gets, last_io, linkVars, tableVars, fileVars,
                   discoverVars, best_of, best_result, costsVars, jsonVars,
                   search_results>>

\* best = db.find_best_price(cpt_code) in main
ReportStored ==
    /\ prog = "main"
    /\ pc = "report"
    /\ best_result' = FindBestPrice(data)
    /\ pc' = "done"
    /\ UNCHANGED <<prog, max_depth, max_pages, crawlVars, sessionVars, siteVars,
                   extractVars, gets, last_io, linkVars, tableVars, fileVars,
                   discoverVars, data, best_of, moreVars>>

----------------------------------------------------------------------------
(* CostExtractor.extract_costs: the three strategies on one page and the   *)
(* aggregates kept for the code                                            *)

\* the text of a page outside its table
PageTexts ==
    {<<>>, <<CodeTok, NumTok(300, TRUE)>>,
     <<TermTok("cost"), NumTok(300, TRUE), CodeTok>>}

CostsHeaders == {<<"cpt code", "price">>, <<"description", "price">>}

Pages ==
    [text : PageTexts,
     table : UNION {[headers : {h}, rows : SeqsUpTo(RowsOf(Len(h)), MaxRows)] :
                      h \in CostsHeaders}]

NoPage == [text |-> <<>>, table |-> [headers |-> <<>>, rows |-> <<>>]]

\* the text of a header cell and of a data cell, as tokens
HeaderTok(h) == IF h = "price" THEN TermTok("price") ELSE WordTok

CellTok(cell) ==
    CASE cell.k = "code" -> CodeTok
      [] cell.k = "num" -> NumTok(cell.v, TRUE)
      [] OTHER -> WordTok

\* row_text of a <tr>: the texts of its cells, joined
RowText(row) == [i \in DOMAIN row |-> CellTok(row[i])]

RECURSIVE Flatten(_)
Flatten(seqs) == IF seqs = <<>> THEN <<>> ELSE Head(seqs) \o Flatten(Tail(seqs))

\* soup.get_text(): the text outside the table, then the table row by row
GetText(pg) ==
    pg.text \o [i \in DOMAIN pg.table.headers |-> HeaderTok(pg.table.headers[i])]
            \o Flatten([n \in DOMAIN pg.table.rows |-> RowText(pg.table.rows[n])])

\* the prices the table pass appends for one row: for every pattern with a
\* match in the row text, the amount of its first match
RECURSIVE RowPatternPrices(_, _)
RowPatternPrices(w, p) ==
    IF p > Len(price_patterns) THEN <<>>
    ELSE (IF CptMatches(price_patterns[p], w) # <<>>
          THEN <<Head(CptMatches(price_patterns[p], w))>>
          ELSE <<>>) \o RowPatternPrices(w, p + 1)

\* the prices the table pass appends, over all rows of the table
TableRowPrices(t) ==
    Flatten([n \in DOMAIN t.rows |->
                IF \E i \in DOMAIN t.rows[n] : HasCode(t.rows[n][i])
                THEN RowPatternPrices(RowText(t.rows[n]), 1)
                ELSE <<>>])

RECURSIVE SumSeq(_)
SumSeq(q) == IF q = <<>> THEN 0 ELSE Head(q) + SumSeq(Tail(q))

\* min(prices) and max(prices), 0 standing for None
MinSeq(q) == IF q = <<>> THEN 0 ELSE CHOOSE a \in Range(q) : \A b \in Range(q) : a <= b

MaxSeq(q) == IF q = <<>> THEN 0 ELSE CHOOSE a \in Range(q) : \A b \in Range(q) : b <= a

\* sum(prices) / len(prices), kept as a fraction
Ratio(num, den) == [num |-> num, den |-> den]

\* no entry for the code in results
NoSummary ==
    [present |-> FALSE, prices |-> <<>>, min_price |-> 0, max_price |-> 0,
     avg_price |-> Ratio(0, 1)]

\* the entry {'prices', 'min_price', 'max_price', 'avg_price'} of a list
Summarize(q) ==
    [present |-> TRUE, prices |-> q, min_price |-> MinSeq(q), max_price |-> MaxSeq(q),
     avg_price |-> IF q = <<>> THEN Ratio(0, 1) ELSE Ratio(SumSeq(q), Len(q))]

\* an entry is made for an empty list too
TextEntryAlways(q) == Summarize(q)

\* if prices: results[cpt_code] = {...}
TextEntry(q) == IF q # <<>> THEN Summarize(q) ELSE NoSummary

\* the update of the table pass and of the price-list pass for one price
AddPrice(entry, price) ==
    IF ~entry.present
    THEN [present |-> TRUE, prices |-> <<price>>, min_price |-> price,
          max_price |-> price, avg_price |-> Ratio(price, 1)]
    ELSE Summarize(Append(entry.prices, price))

\* the loop over self.cpt_codes on the page text
TextPass ==
    /\ prog = "costs"
    /\ pc = "text"
    /\ cost_results' = IF CodePositions(GetText(page)) # <<>>
                       THEN TextEntry(FindCostsNearCpt(GetText(page)))
                       ELSE NoSummary
    /\ pending' = TableRowPrices(page.table)
    /\ pc' = "rows"
    /\ UNCHANGED <<prog, max_depth, max_pages, crawlVars, sessionVars, siteVars,
                   extractVars, gets, last_io, linkVars, tableVars, fileVars,
                   discoverVars, bestVars, page, jsonVars, dbVars>>

\* one price of the table pass or of the price-list pass is added
AppendPrice ==
    /\ prog = "costs"
    /\ pc \in {"rows", "lists"}
    /\ pending # <<>>
    /\ cost_results' = AddPrice(cost_results, Head(pending))
    /\ pending' = Tail(pending)
    /\ UNCHANGED <<prog, pc, max_depth, max_pages, crawlVars, sessionVars, siteVars,
                   extractVars, gets, last_io, linkVars, tableVars, fileVars,
                   discoverVars, bestVars, page, jsonVars, dbVars>>

\* self._extract_from_price_lists(soup, results, url) begins
PriceListPass ==
    /\ prog = "costs"
    /\ pc = "rows"
    /\ pending = <<>>
    /\ pending' = ExtractFromPriceLists(page.table, cpt_code)
    /\ pc' = "lists"
    /\ UNCHANGED <<prog, max_depth, max_pages, crawlVars, sessionVars, siteVars,
                   extractVars, gets, last_io, linkVars, tableVars, fileVars,
                   discoverVars, bestVars, page, cost_results, jsonVars, dbVars>>

\* return results
ReturnCosts ==
    /\ prog = "costs"
    /\ pc = "lists"
    /\ pending = <<>>
    /\ pc' = "done"
    /\ UNCHANGED <<prog, max_depth, max_pages, crawlVars, sessionVars, siteVars,
                   extractVars, gets, last_io, linkVars, tableVars, fileVars,
                   discoverVars, bestVars, costsVars, jsonVars, dbVars>>

----------------------------------------------------------------------------
(* CostInfoParser._search_json_for_cpt *)

\* largest number of dictionaries in a list of a dictionary
MaxKids == 2

\* the value of a price-named key of a dictionary, 0 when it has none
JsonPrices == {0, 125, 300}

\* a dictionary without nested dictionaries: code tells whether one of its
\* own values is the code, price is the value of its price-named key
JsonLeaves == [code : BOOLEAN, price : JsonPrices, kids : {<<>>}]

\* a dictionary, possibly with a key that holds a list of dictionaries.
\* Prices are numbers, so no '$' occurs in a serialized dictionary.
JsonDicts ==
    JsonLeaves \cup [code : BOOLEAN, price : JsonPrices,
                     kids : SeqsUpTo(JsonLeaves, MaxKids) \ {<<>>}]

NoJson == [code |-> FALSE, price |-> 0, kids |-> <<>>]

\* cpt_code in str(data).lower(): the serialized form holds the nested
\* dictionaries too
Serialized(node) == node.code \/ \E i \in DOMAIN node.kids : node.kids[i].code

\* the result of the search in the dictionaries of a list, in order; the
\* dictionaries of a list have no nested dictionaries
FirstFound(kids) ==
    LET hits == {i \in DOMAIN kids : kids[i].code /\ kids[i].price # 0}
    IN IF hits = {} THEN None
       ELSE FoundCost(kids[CHOOSE i \in hits : \A j \in hits : i <= j].price, "json")

\* CostInfoParser._search_json_for_cpt(data, cpt_code) on a dictionary
SearchJsonForCpt(node) ==
    IF Serialized(node) /\ node.price # 0 THEN FoundCost(node.price, "json")
    ELSE FirstFound(node.kids)

SearchJson ==
    /\ prog = "json"
    /\ pc = "call"
    /\ pc' = "done"
    /\ json_result' = SearchJsonForCpt(json_data)
    /\ UNCHANGED <<prog, max_depth, max_pages, crawlVars, sessionVars, siteVars,
                   extractVars, gets, last_io, linkVars, tableVars, fileVars,
                   discoverVars, bestVars, costsVars, json_data, dbVars>>

----------------------------------------------------------------------------
(* The specification *)

IdleCrawl ==
    /\ queue = <<Entry(Seed, 0)>>
    /\ visited = {Seed}
    /\ results = <<>>
    /\ page_count = 0
    /\ current = NoEntry
    /\ attempts = 0
    /\ response = NoResponse

IdleSession ==
    /\ probe_i = 1
    /\ pdf_i = 1
    /\ found = FALSE

IdleSite ==
    /\ site_queue = <<>>
    /\ visited_urls = {}
    /\ pages_crawled = 0
    /\ cost_info = ""
    /\ discovered = [u \in {} |-> 0]

IdleText ==
    /\ text = <<>>
    /\ url_indicator = FALSE
    /\ price_info = Unset
    /\ prices = UnsetPrices

IdleExtract == IdleText /\ cpt_code = 0

IdleLinks ==
    /\ page_links = <<>>
    /\ prioritized = <<>>

IdleTable ==
    /\ table = [headers |-> <<>>, rows |-> <<>>]
    /\ table_prices = <<>>

IdleFile ==
    /\ file = NoFile
    /\ file_result = None

IdleDiscover ==
    /\ discovery = NoDiscovery
    /\ hospitals = <<>>

IdleBest ==
    /\ data = <<>>
    /\ best_of = ""
    /\ best_result = NoBest

IdleCosts ==
    /\ page = NoPage
    /\ cost_results = NoSummary
    /\ pending = <<>>

IdleJson ==
    /\ json_data = NoJson
    /\ json_result = None

IdleDb ==
    /\ db_file = <<>>
    /\ search_results = <<>>

IdleMore == IdleCosts /\ IdleJson /\ IdleDb

IdleFn == IdleLinks /\ IdleTable /\ IdleFile /\ IdleDiscover /\ IdleBest /\ IdleMore

InitCrawl ==
    /\ prog = "crawl"
    /\ pc = "loop"
    /\ max_depth \in 0..MaxDepthBound
    /\ max_pages \in 0..MaxPagesBound
    /\ website = Seed
    /\ IdleCrawl /\ IdleSession /\ IdleSite /\ IdleExtract /\ IdleFn

InitPricing ==
    /\ prog = "pricing"
    /\ pc = "probe"
    /\ max_depth \in 0..MaxDepthBound
    /\ max_pages = SessionMaxPages
    /\ website = Seed
    /\ IdleCrawl /\ IdleSession /\ IdleSite /\ IdleExtract /\ IdleFn

InitSite ==
    /\ prog = "site"
    /\ pc = "site_start"
    /\ max_depth = 0
    /\ max_pages \in 0..MaxSitePages
    /\ website \in {Seed, NoUrl}
    /\ IdleCrawl /\ IdleSession /\ IdleSite /\ IdleExtract /\ IdleFn

InitExtract ==
    /\ prog = "extract"
    /\ pc = "done"
    /\ max_depth = 0
    /\ max_pages = 0
    /\ website = NoUrl
    /\ IdleCrawl /\ IdleSession /\ IdleSite
    /\ text \in Texts
    /\ url_indicator \in BOOLEAN
    /\ cpt_code \in CptCodes
    /\ price_info = Unset
    /\ prices = UnsetPrices
    /\ IdleFn

\* the crawl variables of a run that applies one function
IdleEngine ==
    /\ max_depth = 0
    /\ max_pages = 0
    /\ website = NoUrl
    /\ IdleCrawl /\ IdleSession /\ IdleSite /\ IdleText

InitLinks ==
    /\ prog = "links"
    /\ pc = "call"
    /\ IdleEngine /\ IdleTable /\ IdleFile /\ IdleDiscover /\ IdleBest /\ IdleMore
    /\ cpt_code = 0
    /\ page_links \in SeqsUpTo(SiteLinks, MaxLinks)
    /\ prioritized = <<>>

InitTable ==
    /\ prog = "table"
    /\ pc = "call"
    /\ IdleEngine /\ IdleLinks /\ IdleFile /\ IdleDiscover /\ IdleBest /\ IdleMore
    /\ cpt_code \in CptCodes
    /\ table \in Tables
    /\ table_prices = <<>>

InitFile ==
    /\ prog = "file"
    /\ pc = "call"
    /\ IdleEngine /\ IdleLinks /\ IdleTable /\ IdleDiscover /\ IdleBest /\ IdleMore
    /\ cpt_code = 0
    /\ file \in Files
    /\ file_result = None

InitDiscover ==
    /\ prog = "discover"
    /\ pc = "call"
    /\ IdleEngine /\ IdleLinks /\ IdleTable /\ IdleFile /\ IdleBest /\ IdleMore
    /\ cpt_code = 0
    /\ discovery \in Discoveries
    /\ hospitals = <<>>

InitBest ==
    /\ prog = "best"
    /\ pc = "call"
    /\ IdleEngine /\ IdleLinks /\ IdleTable /\ IdleFile /\ IdleDiscover /\ IdleMore
    /\ cpt_code = 0
    /\ best_of \in {"find_best_price", "find_best_procedure_price"}
    /\ data \in SeqsUpTo(Entries(best_of), MaxEntries)
    /\ best_result = NoBest

InitCosts ==
    /\ prog = "costs"
    /\ pc = "text"
    /\ IdleEngine /\ IdleLinks /\ IdleTable /\ IdleFile /\ IdleDiscover /\ IdleBest
    /\ IdleJson /\ IdleDb
    /\ cpt_code \in CptCodes
    /\ page \in Pages
    /\ cost_results = NoSummary
    /\ pending = <<>>

InitJson ==
    /\ prog = "json"
    /\ pc = "call"
    /\ IdleEngine /\ IdleLinks /\ IdleTable /\ IdleFile /\ IdleDiscover /\ IdleBest
    /\ IdleCosts /\ IdleDb
    /\ cpt_code = 0
    /\ json_data \in JsonDicts
    /\ json_result = None

InitMain ==
    /\ prog = "main"
    /\ pc = "load"
    /\ IdleEngine /\ IdleLinks /\ IdleTable /\ IdleFile /\ IdleDiscover
    /\ IdleCosts /\ IdleJson
    /\ cpt_code = 0
    /\ best_of = "find_best_price"
    /\ data = <<>>
    /\ best_result = NoBest
    /\ db_file \in SeqsUpTo(Entries(best_of), MaxStored)
    /\ search_results \in SeqsUpTo(Entries(best_of), MaxStored)

Init ==
    /\ gets = [u \in {} |-> 0]
    /\ last_io = "none"
    /\ \/ InitCrawl
       \/ InitPricing
       \/ InitSite
       \/ InitExtract
       \/ InitLinks
       \/ InitTable
       \/ InitFile
       \/ InitDiscover
       \/ InitBest
       \/ InitCosts
       \/ InitJson
       \/ InitMain

Next ==
    \/ Dequeue
    \/ LoopExit
    \/ Delay
    \/ Attempt
    \/ Probe
    \/ Relevant
    \/ PdfPass
    \/ SiteNoWebsite
    \/ SiteStart
    \/ SiteStep
    \/ SiteExit
    \/ ExtractPrice
    \/ FindCosts
    \/ Prioritize
    \/ ExtractTable
    \/ ParseFile
    \/ RunDiscovery
    \/ ReportBest
    \/ TextPass
    \/ AppendPrice
    \/ PriceListPass
    \/ ReturnCosts
    \/ SearchJson
    \/ LoadDb
    \/ StoreResults
    \/ ReportStored

Spec == Init /\ [][Next]_vars

\* the runs of the three crawls
InitCrawls ==
    /\ gets = [u \in {} |-> 0]
    /\ last_io = "none"
    /\ \/ InitCrawl
       \/ InitPricing
       \/ InitSite

\* the steps of the three crawls
NextCrawl ==
    \/ Dequeue
    \/ LoopExit
    \/ Delay
    \/ Attempt
    \/ Probe
    \/ Relevant
    \/ PdfPass
    \/ SiteNoWebsite
    \/ SiteStart
    \/ SiteStep
    \/ SiteExit

\* the crawls, with every loop iteration and every pass eventually carried
\* out
FairSpec == InitCrawls /\ [][NextCrawl]_vars /\ WF_vars(NextCrawl)

----------------------------------------------------------------------------
(* Properties *)

InCrawl == prog \in {"crawl", "pricing"}

Fetched == DOMAIN gets

\* the URLs of the pages in results
ResultUrls == {results[i].url : i \in 1..Len(results)}

\* C1: within one price search (the direct probes, the BFS crawl and the
\* PDF-link pass of find_procedure_pricing) a GET is issued for every URL
\* at most once.
VisitedOnce == prog = "pricing" => \A u \in Fetched : gets[u] <= 1

\* C2: a crawl with max_pages = N issues page requests for at most N URLs,
\* whatever the outcomes of the fetches.
BudgetTermination ==
    prog \in {"crawl", "site"} => Cardinality(Fetched) <= max_pages

\* C3: the depths of the entries dequeued by crawl_hospital_website never
\* decrease.
DepthMonotonicity ==
    [][(InCrawl /\ current' # current) => current'.depth >= current.depth]_vars

\* an entry of depth 2 was dequeued (after the seed and a depth-1 entry)
DepthMonotonicityWitness == InCrawl /\ current.depth = 2 /\ queue # <<>>

\* C4: every entry of a crawl queue, and every URL a crawl loop requests,
\* has the netloc of the seed URL.
DomainConfinement ==
    /\ \A i \in 1..Len(queue) : netloc(queue[i].url) = netloc(Seed)
    /\ \A i \in 1..Len(site_queue) : netloc(site_queue[i]) = netloc(website)
    /\ \A u \in Fetched : netloc(u) = netloc(Seed)

\* discovered links are in the queue of crawl_hospital_website
DomainConfinementWitness ==
    /\ prog = "crawl"
    /\ Len(queue) >= 2
    /\ \A i \in 1..Len(queue) : queue[i].url # Seed

PriceBound ==
    /\ price_info.found => InPriceBound(price_info.price)
    /\ prices # UnsetPrices => \A i \in 1..Len(prices) : InPriceBound(prices[i])

\* C7: in a crawl loop, a GET for a new URL is never issued right after
\* another GET: a sleep lies between any two fetches.
MandatoryDelay ==
    [][(prog \in {"crawl", "site"} /\ gets' # gets) => last_io # "get"]_vars

\* C8: the fetch of crawl_hospital_website makes at most 4 attempts per URL,
\* makes another attempt after a listed status while fewer than 4 were made,
\* makes none after any other status, and records the page of a URL that
\* answers 200 on the fourth attempt (an HTML body whose title can be read).
RetryBudget ==
    InCrawl =>
        /\ attempts <= 4
        /\ (pc = "get" /\ attempts > 0) =>
              response.status \in status_forcelist \cup {ConnError}
        /\ (response.status \in status_forcelist /\ attempts < 4) => pc = "get"
        /\ (response.status = 200 /\ response.html /\ ~TitleRaises(response)) =>
              current.url \in ResultUrls

\* three listed statuses, then 200 on the fourth attempt: the page is recorded
RetryBudgetWitness ==
    /\ InCrawl
    /\ attempts = 4
    /\ response.status = 200
    /\ response.html
    /\ current.url \in ResultUrls

\* the response leaves the URL fetch-failed
FetchFailed(r) == ~(r.status = 200 /\ r.html)

\* C9: a fetch that ends with a non-200 status, an exception, an exhausted
\* retry budget or a non-HTML content type adds no page, queues no link,
\* yields no cost information and leaves the loop running.
FailedFetchLocal ==
    [][/\ (InCrawl /\ pc = "get" /\ pc' = "loop" /\ FetchFailed(response')) =>
            /\ results' = results
            /\ queue' = queue
            /\ visited' = visited
       /\ (prog = "site" /\ pages_crawled' # pages_crawled /\ FetchFailed(response')) =>
            /\ site_queue' = Tail(site_queue)
            /\ visited_urls' = visited_urls
            /\ cost_info' = cost_info
            /\ pc' = "site_loop"]_vars

\* the number of entries dequeued so far by crawl_hospital_website
Dequeues == Cardinality(visited) - Len(queue)

\* the number of URLs within n levels of a seed, at most b links a page
RECURSIVE TreeSize(_, _)
TreeSize(b, n) == IF n = 0 THEN 1 ELSE 1 + b * TreeSize(b, n - 1)

\* C10: every crawl ends, with the frontier empty, the page budget used up
\* or a price found; crawl_hospital_site dequeues at most max_pages entries
\* and crawl_hospital_website at most the URLs within max_depth levels.
Termination ==
    /\ [](prog = "site" => pages_crawled <= max_pages)
    /\ [](InCrawl => Dequeues <= TreeSize(MaxLinks, max_depth))
    /\ []((prog = "crawl" /\ pc = "done") =>
            (queue = <<>> \/ page_count >= max_pages))
    /\ []((prog = "site" /\ pc = "done") =>
            \/ site_queue = <<>>
            \/ pages_crawled >= max_pages
            \/ cost_info = "found")
    /\ <>(pc = "done")

\* a crawl that ended on its page budget with entries left in the frontier
TerminationWitness ==
    /\ prog = "crawl"
    /\ pc = "done"
    /\ page_count = max_pages
    /\ queue # <<>>

\* the in-bound values of the numbers of a window, in text order
ValidPrices(w, code) ==
    LET idx == SelectSeq([j \in 1..Len(w) |-> j],
                         LAMBDA j : IsNumeric(w[j]) /\ InPriceBound(NumVal(w[j], code)))
    IN [n \in 1..Len(idx) |-> NumVal(w[idx[n]], code)]

\* v[k] of the values sorted ascending (k counted from 0)
OrderStat(vals, k) ==
    CHOOSE x \in Range(vals) :
        /\ Cardinality({i \in 1..Len(vals) : vals[i] < x}) <= k
        /\ k < Cardinality({i \in 1..Len(vals) : vals[i] <= x})

\* the window of _extract_price_from_page around the n-th occurrence
PageWindowAt(n) == Window(text, CodePositions(text)[n], PageWindow)

\* the first window that holds a valid price is the n-th one
FirstPricedWindow(n) ==
    /\ ValidPrices(PageWindowAt(n), cpt_code) # <<>>
    /\ \A m \in 1..(n - 1) : ValidPrices(PageWindowAt(m), cpt_code) = <<>>

\* C11: the price returned by _extract_price_from_page is, of the valid
\* prices v[0..n-1] of the window it was taken from sorted ascending,
\* v[n div 2] when n > 2 and v[0] when n is 1 or 2; it is one of them.
MedianTieBreak ==
    (prog = "extract" /\ price_info.found) =>
        \E n \in 1..Len(CodePositions(text)) :
            LET v == ValidPrices(PageWindowAt(n), cpt_code)
            IN /\ FirstPricedWindow(n)
               /\ price_info.price \in Range(v)
               /\ price_info.price =
                    OrderStat(v, IF Len(v) > 2 THEN Len(v) \div 2 ELSE 0)

\* three amounts are the valid prices of the window, and the middle one,
\* which is not the lowest, was returned
MedianTieBreakWitness ==
    /\ prog = "extract"
    /\ price_info.found
    /\ ~InPriceBound(cpt_code)
    /\ \E n \in 1..Len(CodePositions(text)) :
            LET v == ValidPrices(PageWindowAt(n), cpt_code)
            IN /\ FirstPricedWindow(n)
               /\ Len(v) = 3
               /\ price_info.price = OrderStat(v, 1)
               /\ price_info.price # OrderStat(v, 0)

\* the valid prices of a window that a price-term pattern of
\* _extract_price_from_page matches
PageTermPrices(w, code) ==
    UNION {Range(SelectSeq(PageMatches(PagePatterns[p], w, code), InPriceBound)) :
             p \in 2..Len(PagePatterns)}

\* the amounts of a window that a price-term pattern of CostExtractor matches
CptTermPrices(w) ==
    UNION {Range(CptMatches(price_patterns[p], w)) : p \in 2..Len(price_patterns)}

\* C12: in a context window the price-term patterns come first: when one of
\* them yields a valid price, the price taken from the window is one they
\* matched, and an amount only the bare pattern matches is not used.
PatternOrder ==
    /\ (prog = "extract" /\ price_info.found) =>
            \A n \in 1..Len(CodePositions(text)) :
                (FirstPricedWindow(n) /\ PageTermPrices(PageWindowAt(n), cpt_code) # {}) =>
                    price_info.price \in PageTermPrices(PageWindowAt(n), cpt_code)
    /\ (prog = "extract" /\ prices # UnsetPrices /\ Len(CodePositions(text)) = 1) =>
            LET w == Window(text, CodePositions(text)[1], CptWindow)
            IN CptTermPrices(w) # {} => Range(prices) \subseteq CptTermPrices(w)

\* the same-domain PDF links of the page whose anchor text has a cost keyword
PricingPdfLinks ==
    {i \in 1..Len(page_links) :
        /\ page_links[i].href.nav
        /\ netloc(urljoin(Seed, page_links[i].href)) = netloc(Seed)
        /\ PathExt(page_links[i].href.path) = ".pdf"
        /\ TextWords(page_links[i].text) \cap cost_keywords # {}}

\* the links of the page without a cost keyword in anchor text or path
PlainLinks ==
    {i \in 1..Len(page_links) :
        /\ TextWords(page_links[i].text) \cap cost_keywords = {}
        /\ PathWords(page_links[i].href.path) \cap cost_keywords = {}}

\* C13: a same-domain link to a PDF whose anchor text names prices is in the
\* output of _extract_and_prioritize_links, scored above every link without
\* a cost keyword, and a PDF is never requested as a page by
\* crawl_hospital_site.
PdfLinkPriority ==
    /\ (prog = "links" /\ pc = "done") =>
            \A i \in PricingPdfLinks :
                \E k \in 1..Len(prioritized) :
                    /\ prioritized[k].url = urljoin(Seed, page_links[i].href)
                    /\ \A j \in PlainLinks :
                            prioritized[k].priority > Priority(page_links[j])
    /\ prog = "site" => \A u \in Fetched : PathExt(u.path) # ".pdf"

\* C14: crawl_hospital_site never dequeues an entry while the frontier holds
\* an entry of the same BFS depth with a higher priority score, whichever
\* pages the two were discovered on.
PriorityWithinLevel ==
    [][(prog = "site" /\ pages_crawled' = pages_crawled + 1) =>
          \A k \in 2..Len(site_queue) :
              discovered[site_queue[k]].depth = discovered[Head(site_queue)].depth =>
                  discovered[site_queue[k]].priority
                      <= discovered[Head(site_queue)].priority]_vars

\* position j of the text lies within radius r of an occurrence of the code
InWindows(j, r) ==
    \E i \in 1..Len(text) :
        /\ text[i].k = "code"
        /\ j - i <= r
        /\ i - j <= r

\* a '$' amount that follows a price term stands at position j
TermAmountAt(j) ==
    /\ text[j].k = "num"
    /\ text[j].d
    /\ j > 1
    /\ text[j - 1].k = "term"

\* the in-bound numbers that lie within radius r of an occurrence
ValidNumbersIn(r) ==
    {NumVal(text[j], cpt_code) : j \in {k \in 1..Len(text) :
        /\ IsNumeric(text[k])
        /\ InWindows(k, r)
        /\ InPriceBound(NumVal(text[k], cpt_code))}}

\* the '$' amounts that lie within radius r of an occurrence
DollarAmountsIn(r) ==
    {text[j].v : j \in {k \in 1..Len(text) :
        text[k].k = "num" /\ text[k].d /\ InWindows(k, r)}}

Columns(terms) ==
    {i \in 1..Len(table.headers) : HeaderWords(table.headers[i]) \cap terms # {}}

\* the data rows that hold the target code in column c and a number in
\* column p, in table order
PricedRows(c, p) ==
    SelectSeq(table.rows,
              LAMBDA row : /\ Len(row) >= c
                           /\ Len(row) >= p
                           /\ row[c].k = "code"
                           /\ row[p].k \in {"num", "code"})

CsvParsed ==
    /\ prog = "file"
    /\ pc = "done"
    /\ file.download = 200
    /\ file.file_type = "csv"

\* the rows of the CSV that contain the code
CodeRows == {n \in 1..Len(file.payload.rows) : RowHasCode(file.payload.rows[n])}

\* the price-named columns that are not empty in row n
FilledPriceCols(n) ==
    {p \in 1..Len(file.payload.headers) :
        /\ file.payload.headers[p] \in {"fee", "charge"}
        /\ file.payload.rows[n][p].k # "nan"}

\* C17: for a CSV with one row that contains the code and a price-named
\* column that is not empty in that row, _parse_csv returns the value of the
\* first such column of that row, as a structured CSV result.
CsvExtraction ==
    CsvParsed =>
        \A n \in CodeRows :
            (CodeRows = {n} /\ FilledPriceCols(n) # {}) =>
                file_result =
                    FoundCost(file.payload.rows[n][FirstIndex(FilledPriceCols(n))].v, "csv")

\* parse_cost_file has returned or raised
FileParsed == prog = "file" /\ pc = "done"

\* the failures of a cost file: the download raised or answered another
\* status than 200, the file type has no parser, or the parser of the file
\* type could not read the payload
FileFailure ==
    \/ file.download # 200
    \/ file.file_type \notin {"csv", "xlsx", "json", "xml"}
    \/ file.payload.kind = "csv" /\ file.payload.reader = "unreadable"
    \/ file.payload.kind = "other" /\ file.payload.outcome = "raises"

\* C18: parse_cost_file raises nothing, and returns None for a download
\* that fails, an unsupported file type and a payload that cannot be parsed.
FailurePolicy ==
    FileParsed =>
        /\ file_result # Raised
        /\ FileFailure => file_result = None

\* a downloaded CSV that neither pandas nor the csv module can read
FailurePolicyWitness ==
    /\ FileParsed
    /\ file.download = 200
    /\ file.file_type = "csv"
    /\ file.payload.reader = "unreadable"
    /\ file_result = None

\* a discovery function has returned
Discovered == prog = "discover" /\ pc = "done"

\* an upstream request of the discovery failed: geocoding, or the hospital
\* search that follows a geocoding that succeeded
UpstreamFailed ==
    \/ discovery.geocode \in {"status", "raises"}
    \/ discovery.geocode \in {"ok", "unused"} /\ discovery.search \in {"status", "raises"}

\* C19: when an upstream request of the discovery fails, the discovery
\* function returns an empty hospital list (no exception can leave either
\* function: every request is made under an except clause).
DiscoveryFailure ==
    (Discovered /\ UpstreamFailed) => hospitals = <<>>

\* a best-price function has returned
BestReported == prog = "best" /\ pc = "done"

\* the entries that hold candidates for the code
Candidates == {i \in DOMAIN data : data[i].coded}

\* every price collected for the code
CandidatePrices == UNION {data[i].prices : i \in Candidates}

\* the entries that hold the price p
Holders(p) == {i \in Candidates : p \in data[i].prices}

\* C20: the best price reported is the least of all collected candidates,
\* it comes with the URL of the first entry that holds it, and there is no
\* best price exactly when no candidate was collected.
BestPrice ==
    BestReported =>
        /\ best_result = NoBest <=> Candidates = {}
        /\ Candidates # {} =>
            /\ best_result.status = "found"
            /\ best_result.price \in CandidatePrices
            /\ \A p \in CandidatePrices : best_result.price <= p
            /\ \E i \in Holders(best_result.price) :
                /\ best_result.url = data[i].url
                /\ \A j \in Holders(best_result.price) : i <= j

\* find_best_price on three entries of which the last two, at different
\* URLs, tie for the least price
BestPriceWitness ==
    /\ BestReported
    /\ best_of = "find_best_price"
    /\ Len(data) = 3
    /\ Candidates = {1, 2, 3}
    /\ data[1].prices = {300}
    /\ 125 \in data[2].prices
    /\ 125 \in data[3].prices
    /\ data[2].url # data[3].url
    /\ best_result = Best(125, data[2].url)

RECURSIVE SumGets(_)
\* the number of GET requests issued for the URLs of S
SumGets(S) ==
    IF S = {} THEN 0
    ELSE LET u == CHOOSE u \in S : TRUE IN gets[u] + SumGets(S \ {u})

\* crawl_hospital_site has returned
SiteReturned == prog = "site" /\ pc = "done"

\* C21: crawl_hospital_site always returns with a status; without a website
\* the status is "No website available" and nothing was fetched; when no
\* page yielded cost information the status is "Cost information not found"
\* and searched_pages is the number of URLs dequeued and attempted,
\* whatever the fetches answered.
NothingFoundCompletes ==
    SiteReturned =>
        /\ cost_info \in CostOutcomes \cup {"Cost information not found",
                                            "No website available"}
        /\ cost_info # "none"
        /\ website = NoUrl <=> cost_info = "No website available"
        /\ website = NoUrl => Fetched = {}
        /\ cost_info = "Cost information not found" =>
            /\ pages_crawled = SumGets(Fetched)
            /\ pages_crawled = Cardinality(visited_urls) - Len(site_queue)

\* a crawl without a price that ended on its page budget, three URLs
\* attempted and others left in the queue
NothingFoundCompletesWitness ==
    /\ SiteReturned
    /\ cost_info = "Cost information not found"
    /\ pages_crawled = 3
    /\ site_queue # <<>>

\* crawl_hospital_site returned with URLs left in the queue and page budget
\* left
StoppedEarly ==
    /\ SiteReturned
    /\ site_queue # <<>>
    /\ pages_crawled < max_pages

\* C22: crawl_hospital_site stops with URLs left in the queue and budget
\* left only when the page fetched last yielded a price for the code, which
\* is then the hospital's cost_info; a page with a price always ends the
\* crawl.
FirstFoundStop ==
    /\ StoppedEarly => cost_info = "found"
    /\ (prog = "site" /\ cost_info = "found") => pc = "done"

\* a URL of a type that crawl_hospital_website rejects: its path ends with a
\* listed binary extension, or it matches the exclusion pattern
RejectedType(url) ==
    \/ PathExt(url.path) \in SkipExtensions
    \/ MatchesExclusion(url)

\* C23: crawl_hospital_website issues no request for a URL of a rejected
\* type and records no page for it.
RejectedNeverFetched ==
    prog = "crawl" =>
        /\ \A u \in Fetched : ~RejectedType(u)
        /\ \A u \in ResultUrls : ~RejectedType(u)

\* the candidates of the three strategies of extract_costs for the page
TextCandidates == FindCostsNearCpt(GetText(page))

RowCandidates == TableRowPrices(page.table)

ListCandidates == ExtractFromPriceLists(page.table, cpt_code)

FetchedHtml ==
    /\ InCrawl
    /\ pc = "loop"
    /\ response.status = 200
    /\ response.html

\* C25: every HTML page fetched by crawl_hospital_website is recorded in the
\* results, under the placeholder "No title" when its title is absent or
\* has no text.
TitlePlaceholder ==
    FetchedHtml =>
        \E i \in DOMAIN results :
            /\ results[i].url = current.url
            /\ results[i].title = IF response.title = "text" THEN "Title" ELSE "No title"

\* the dictionaries of the value tree
JsonNodes == {json_data} \cup Range(json_data.kids)

\* C26: _search_json_for_cpt returns None when no dictionary holds the code,
\* and otherwise only the value of a price-named key of a dictionary that
\* holds the code itself, never that of an enclosing dictionary.
JsonSiblingPrice ==
    (prog = "json" /\ pc = "done") =>
        /\ ~Serialized(json_data) => json_result = None
        /\ json_result # None =>
            \E node \in JsonNodes : node.code /\ json_result.cost = node.price

\* the URLs of the entries of a queue of crawl_hospital_website
QueuedUrls(q) == [i \in DOMAIN q |-> q[i].url]

\* no element occurs twice in the sequence
NoRepeats(q) == \A i, j \in DOMAIN q : q[i] = q[j] => i = j

\* the frontier of a loop is consistent with its visited set: the seed is
\* visited, every queued URL is visited, no URL is queued twice
Frontier(q, seen, seed) ==
    /\ seed \in seen
    /\ Range(q) \subseteq seen
    /\ NoRepeats(q)

\* a step keeps the visited set, or adds to it exactly the URLs it appends to
\* the queue, none of which was visited before
GrowsTogether(q, seen, q2, seen2) ==
    \/ q2 = q /\ seen2 = seen
    \/ /\ seen \subseteq seen2
       /\ \E k \in 0..1 : \E n \in {Len(q2) - Len(q) + k} :
             /\ n >= 0
             /\ \A i \in 1..(Len(q) - k) : q2[i] = q[i + k]
             /\ {q2[i] : i \in (Len(q) - k + 1)..Len(q2)} = seen2 \ seen
             /\ n = Cardinality(seen2 \ seen)

\* the loop of crawl_hospital_site has set up its queue
SiteLoopStarted == prog = "site" /\ website # NoUrl /\ pc # "site_start"

\* C27: in both crawl loops the visited set holds the seed from the start
\* and only grows, every queued URL is visited, and a URL enters the queue
\* only in the step that adds it to the visited set, so that the queue never
\* holds a URL twice and no URL is enqueued twice.
VisitedFrontier ==
    /\ [](InCrawl => Frontier(QueuedUrls(queue), visited, Seed))
    /\ [](SiteLoopStarted => Frontier(site_queue, visited_urls, website))
    /\ [][/\ GrowsTogether(QueuedUrls(queue), visited, QueuedUrls(queue'), visited')
          /\ SiteLoopStarted =>
                GrowsTogether(site_queue, visited_urls, site_queue', visited_urls')]_vars

\* a crawl that recorded two pages, left URLs in the queue and has dequeued
\* some of the URLs it discovered
VisitedFrontierWitness ==
    /\ prog = "crawl"
    /\ Len(results) >= 2
    /\ queue # <<>>
    /\ Cardinality(visited) > Len(queue) + 2

\* the values of the amounts written in a text, the digits of the target
\* code left out
WrittenAmounts(txt) == {txt[i].v : i \in {j \in DOMAIN txt : txt[j].k = "num"}}

\* C28: a price that _extract_price_from_page returns for a code is the
\* value of an amount of the page text and never the digits of the target
\* code itself.
CodeNeverPrice ==
    (prog = "extract" /\ price_info # Unset /\ price_info.found) =>
        /\ price_info.price \in WrittenAmounts(text)
        /\ price_info.price # cpt_code

\* the occurrences of a '$' amount in a text
DollarOccurrences(txt) == {i \in DOMAIN txt : txt[i].k = "num" /\ txt[i].d}

\* C29: the prices extract_costs returns for a code hold at most one element
\* per occurrence of a '$' amount on the page, whatever the number of
\* patterns, windows and strategies that reach the occurrence.
NoDoubleCounting ==
    (prog = "costs" /\ pc = "done") =>
        Len(cost_results.prices) <= Cardinality(DollarOccurrences(GetText(page)))

\* the entries of the search just stored that hold candidates for the code
SearchCandidates == {i \in DOMAIN search_results : search_results[i].coded}

\* C30: the best price main reports after store_results is a candidate of
\* the search just stored, at the URL of its entry; without such a
\* candidate none is reported, whatever the file held before.
SessionIsolation ==
    (prog = "main" /\ pc = "done") =>
        /\ SearchCandidates = {} => best_result = NoBest
        /\ best_result # NoBest =>
            \E i \in SearchCandidates :
                /\ best_result.price \in search_results[i].prices
                /\ best_result.url = search_results[i].url

====
